---- MODULE Spec2Model ----
(***************************************************************************)
(* Model of ai_assistant.py: the knowledge-base loader (_load_kb_once),    *)
(* the character n-gram retriever (retrieve_relevant_knowledge), the       *)
(* code-fence sanitiser (_strip_code_fences) and the two-step consultation *)
(* orchestrator (get_consultation_response).                               *)
(*                                                                         *)
(* Python strings are sequences of one-character strings.  JSON values     *)
(* read from the knowledge-base file keep their type in a tag, so that a   *)
(* record whose field has the wrong type behaves as it does in Python.     *)
(***************************************************************************)
EXTENDS Integers, Sequences, FiniteSets, TLC

\* ------------------------------------------------------------------ bounds
\* longest text given to strip_code_fences in SpecStrip
MaxLen == 6
\* most lines of a knowledge-base file in SpecRetrieve
MaxLines == 3
\* largest top_k passed in SpecRetrieve
MaxTopK == 2
\* smallest and largest max_chars passed in SpecRetrieve (the shortest bullet
\* of its files has 11 characters, two bullets have at least 22)
MinBudget == 10

MaxBudget == 24
\* most open() calls of the knowledge-base file in one behaviour of Spec
MaxOpens == 3

\* ------------------------------------------------------- program constants
\* _char_ngrams(s, n=2)
NgramN == 2
\* per-document text limit in retrieve_relevant_knowledge
TxtLimit == 900
\* top_k passed by get_consultation_response
ConsultTopK == 12
\* max_chars default of retrieve_relevant_knowledge
DefaultMaxChars == 5000

\* ----------------------------------------------------------------- strings
\* whitespace as str.strip() and the regex class \s see it
WS == {" ", "\n"}

Min(a, b) == IF a < b THEN a ELSE b

Max(a, b) == IF a > b THEN a ELSE b

\* str.lower() on one character
Lower(c) ==
  CASE c = "A" -> "a"
    [] c = "B" -> "b"
    [] c = "M" -> "m"
    [] c = "D" -> "d"
    [] OTHER -> c

RECURSIVE LStrip(_)
LStrip(s) ==
  IF s = <<>> THEN <<>>
  ELSE IF Head(s) \in WS THEN LStrip(Tail(s)) ELSE s

RECURSIVE RStrip(_)
RStrip(s) ==
  IF s = <<>> THEN <<>>
  ELSE IF s[Len(s)] \in WS THEN RStrip(SubSeq(s, 1, Len(s) - 1)) ELSE s

\* str.strip()
Strip(s) == RStrip(LStrip(s))

\* s[i:] starts with p (i is 1-based), compared case-insensitively
StartsWithAt(s, i, p) ==
  /\ i + Len(p) - 1 <= Len(s)
  /\ \A k \in 1..Len(p) : Lower(s[i + k - 1]) = p[k]

\* first index >= i of s that is not whitespace (Len(s)+1 if none): regex \s*
RECURSIVE SkipWS(_, _)
SkipWS(s, i) ==
  IF i <= Len(s) /\ s[i] \in WS THEN SkipWS(s, i + 1) ELSE i

\* ------------------------------------------------------------ code fences
\* the backtick character (the lexer accepts no backtick inside a string)
BT == "^"

Ticks == <<BT, BT, BT>>

\* the optional tags of _FENCE_RE, in the order of the alternation
FenceTags ==
  << <<"h", "t", "m", "l">>,
     <<"m", "a", "r", "k", "d", "o", "w", "n">>,
     <<"m", "d">>,
     <<"j", "s", "o", "n">> >>

\* length of the tag (?:html|markdown|md|json)? matches at s[j:], 0 if none
TagLenAt(s, j) ==
  LET hits == {t \in 1..Len(FenceTags) : StartsWithAt(s, j, FenceTags[t])}
  IN  IF hits = {} THEN 0
      ELSE Len(FenceTags[CHOOSE t \in hits : \A u \in hits : t <= u])

\* a fence pattern of two backticks instead of three
FenceMatchEndTwo(s, i) ==
  IF StartsWithAt(s, i, <<BT, BT>>)
  THEN SkipWS(s, i + 2 + TagLenAt(s, i + 2))
  ELSE LET j == SkipWS(s, i)
       IN  IF StartsWithAt(s, j, <<BT, BT>>) THEN j + 2 ELSE 0

\* _FENCE_RE.match at position i: the index after the match, 0 if no match.
\* First alternative: three backticks, optional tag, \s*; second: \s* then
\* three backticks.
FenceMatchEnd(s, i) ==
  IF StartsWithAt(s, i, Ticks)
  THEN SkipWS(s, i + 3 + TagLenAt(s, i + 3))
  ELSE LET j == SkipWS(s, i)
       IN  IF StartsWithAt(s, j, Ticks) THEN j + 3 ELSE 0

\* _FENCE_RE.sub("", s): leftmost non-overlapping matches removed, one pass
RECURSIVE FenceSub(_, _)
FenceSub(s, i) ==
  IF i > Len(s) THEN <<>>
  ELSE LET e == FenceMatchEnd(s, i)
       IN  IF e = 0 THEN <<s[i]>> \o FenceSub(s, i + 1)
           ELSE FenceSub(s, e)

strip_code_fences(text) ==
  IF text = <<>> THEN <<>> ELSE Strip(FenceSub(text, 1))

\* s contains a triple-backtick code-fence marker
HasFence(s) == \E i \in 1..Len(s) : StartsWithAt(s, i, Ticks)


\* ----------------------------------------------------- n-gram similarity
\* re.sub(r"\s+", " ", s): every run of whitespace becomes one space
RECURSIVE CollapseWS(_)
CollapseWS(s) ==
  IF s = <<>> THEN <<>>
  ELSE IF Head(s) \in WS THEN <<" ">> \o CollapseWS(LStrip(s))
       ELSE <<Head(s)>> \o CollapseWS(Tail(s))

\* _norm_text on a str
norm_text(s) == Strip(CollapseWS([i \in 1..Len(s) |-> Lower(s[i])]))

\* _char_ngrams on a str: the set of the n-character windows of the
\* normalised text without spaces; the whole text when it has at most n
\* characters, nothing when it is empty
char_ngrams(s, n) ==
  LET t == SelectSeq(norm_text(s), LAMBDA c : c # " ")
  IN  IF Len(t) <= n THEN (IF t = <<>> THEN {} ELSE {t})
      ELSE {SubSeq(t, i, i + n - 1) : i \in 1..(Len(t) - n + 1)}

\* ------------------------------------------------------------ JSON values
\* a value of a JSON field: a string, a (non-zero) number, or no field
Str(s) == [t |-> "str", s |-> s]

IntVal == [t |-> "int", s |-> <<>>]

Absent == [t |-> "absent", s |-> <<>>]

\* Python truthiness of a field value
Truthy(v) == (v.t = "str" /\ v.s # <<>>) \/ v.t = "int"

\* (v or ""), when the result is a str
OrEmpty(v) == IF v.t = "str" THEN v.s ELSE <<>>

\* (v or "").lower() / .strip() raises AttributeError: v is truthy, not a str
NotStr(v) == Truthy(v) /\ v.t # "str"

\* the "codes" field: no field, a list of strings, or a list holding a number
NoCodes == [t |-> "absent", v |-> <<>>]

Codes(v) == [t |-> "list", v |-> v]

IntCodes == [t |-> "intlist", v |-> <<>>]

\* a knowledge-base document: the fields of a parsed JSON object the code reads
Doc(type, codes, text) == [type |-> type, codes |-> codes, text |-> text]

\* a line of the knowledge-base file: blank, not JSON ("bad"), JSON that is
\* not an object ("nonobj": obj.get raises), or a JSON object
ObjLine(d) == [k |-> "obj", doc |-> d]

OtherLine(k) == [k |-> k, doc |-> Doc(Absent, NoCodes, Absent)]

\* ------------------------------------------------------------------- loader
\* an Optional[...] module global
None == [none |-> TRUE, v |-> <<>>]

Some(v) == [none |-> FALSE, v |-> v]

\* the loop over the lines of the file: a line that is blank or fails to
\* parse is skipped; for an object, docs.append(obj) runs before
\* _char_ngrams(txt), whose exception is swallowed by the same except clause
RECURSIVE LoadLines(_, _, _)
LoadLines(lines, docs, ngrams) ==
  IF lines = <<>> THEN [docs |-> docs, ngrams |-> ngrams]
  ELSE LET l == Head(lines)
           txt == IF l.doc.text.t = "absent" THEN Str(<<>>) ELSE l.doc.text
       IN  IF l.k # "obj" THEN LoadLines(Tail(lines), docs, ngrams)
           ELSE IF NotStr(txt)
                THEN LoadLines(Tail(lines), Append(docs, l.doc), ngrams)
                ELSE LoadLines(Tail(lines), Append(docs, l.doc),
                               Append(ngrams, char_ngrams(OrEmpty(txt), NgramN)))

\* a file of the file system
Missing == [st |-> "missing", lines |-> <<>>]

Unreadable == [st |-> "unreadable", lines |-> <<>>]

Present(lines) == [st |-> "present", lines |-> lines]

\* open(path) and the read loop: FileNotFoundError gives two empty lists, any
\* other error of open() or of the read is not caught
ReadFile(file) ==
  CASE file.st = "missing" -> [raised |-> FALSE, docs |-> <<>>, ngrams |-> <<>>]
    [] file.st = "unreadable" -> [raised |-> TRUE, docs |-> <<>>, ngrams |-> <<>>]
    [] OTHER -> LET r == LoadLines(file.lines, <<>>, <<>>)
                IN  [raised |-> FALSE, docs |-> r.docs, ngrams |-> r.ngrams]

DefaultPath == "knowledge_base.jsonl"

AltPath == "alt.jsonl"

Paths == {DefaultPath, AltPath}

\* path = kb_path or _kb_default_path()
ResolvePath(kb_path) == IF kb_path = "" THEN DefaultPath ELSE kb_path

\* _load_kb_once run by one caller alone: the caches after the call, whether
\* the file was opened and whether the call raised
load_kb_once(cache, ncache, files, kb_path) ==
  IF ~cache.none /\ ~ncache.none
  THEN [cache |-> cache, ncache |-> ncache, opened |-> FALSE, raised |-> FALSE]
  ELSE LET r == ReadFile(files[ResolvePath(kb_path)])
       IN  IF r.raised
           THEN [cache |-> cache, ncache |-> ncache, opened |-> TRUE,
                 raised |-> TRUE]
           ELSE [cache |-> Some(r.docs), ncache |-> Some(r.ngrams),
                 opened |-> TRUE, raised |-> FALSE]

\* ---------------------------------------------------------------- retrieval
\* what a call gives its caller: a returned string (tag names which of the
\* fixed messages it is, "found" for a block of bullets) or an exception
Return(tag, text) == [kind |-> "return", tag |-> tag, text |-> text]

Raise(exc) == [kind |-> "raise", tag |-> exc, text |-> <<>>]

\* the four fixed messages; each is one token here
MsgNoKB == <<"(knowledge base file not found or empty)">>

MsgEmptyQuery == <<"(empty query)">>

MsgNoMatch == <<"(no match in knowledge base)">>

MsgTruncated == <<"(retrieved but cut by max_chars)">>

\* (score, i) for every document whose n-gram set meets the query's, in
\* document order.  The score inter / (union + 1e-9) is kept as the pair
\* (inter, union); documents are numbered from 1 here, from 0 in the code
Scored(ngrams, qset) ==
  LET idx == [i \in 1..Len(ngrams) |-> i]
      keep == SelectSeq(idx, LAMBDA i : ngrams[i] # {} /\ (qset \cap ngrams[i]) # {})
  IN  [k \in 1..Len(keep) |->
         [inter |-> Cardinality(qset \cap ngrams[keep[k]]),
          union |-> Cardinality(qset \cup ngrams[keep[k]]),
          i |-> keep[k]]]

\* a.inter / (a.union + 1e-9) > b.inter / (b.union + 1e-9): cross-multiplied,
\* the integer part decides and the 1e-9 term decides when it is zero
ScoreGT(a, b) ==
  LET d == a.inter * b.union - b.inter * a.union
  IN  d > 0 \/ (d = 0 /\ a.inter > b.inter)

\* the two scores are the same float
ScoreEq(a, b) == ~ScoreGT(a, b) /\ ~ScoreGT(b, a)

\* a descending sort that puts a later element before its equals
InsertPosTiesFirst(sorted, x) ==
  Cardinality({j \in 1..Len(sorted) : ScoreGT(sorted[j], x)})

\* scored.sort(reverse=True, key=lambda x: x[0]): list.sort is stable, and
\* reverse=True keeps equal keys in their original order, so x, the last
\* element of the input, goes after every element whose score is not smaller
InsertPos(sorted, x) ==
  Cardinality({j \in 1..Len(sorted) : ~ScoreGT(x, sorted[j])})

\* x put into the sorted sequence at the place InsertPos gives
Insert(sorted, x) ==
  [j \in 1..(Len(sorted) + 1) |->
     IF j <= InsertPos(sorted, x) THEN sorted[j]
     ELSE IF j = InsertPos(sorted, x) + 1 THEN x ELSE sorted[j - 1]]

\* the sorted list, its elements inserted in the order of the input
RECURSIVE SortFrom(_, _, _)
SortFrom(s, k, sorted) ==
  IF k > Len(s) THEN sorted ELSE SortFrom(s, k + 1, Insert(sorted, s[k]))

SortDesc(s) == SortFrom(s, 1, <<>>)

\* picked = [i for _, i in scored[:max(1, top_k)]]
Picked(ngrams, qset, top_k) ==
  LET ranked == SortDesc(Scored(ngrams, qset))
      n == Min(Len(ranked), Max(1, top_k))
  IN  [k \in 1..n |-> ranked[k].i]

\* sep.join(parts)
RECURSIVE Join(_, _)
Join(parts, sep) ==
  IF parts = <<>> THEN <<>>
  ELSE IF Len(parts) = 1 THEN parts[1]
       ELSE parts[1] \o sep \o Join(Tail(parts), sep)

\* the character U+2026 appended to a cut text
Ellipsis == "..."

\* rendering a document raises: ', '.join(codes) on a list holding a number
\* (TypeError), or .strip() on a text that is not a str (AttributeError)
RenderRaises(doc) == doc.codes.t = "intlist" \/ NotStr(doc.text)

\* piece = f"- [{dtype}]{codes_txt}\n  {txt}"
Piece(doc) ==
  LET dtype == IF doc.type.t = "str" THEN doc.type.s ELSE <<"k", "b">>
      codes_txt == IF doc.codes.v = <<>> THEN <<>>
                   ELSE <<" ", "|", " ", "c", "o", "d", "e", "s", ":", " ">>
                        \o Join(doc.codes.v, <<",", " ">>)
      full == Strip(OrEmpty(doc.text))
      txt == IF Len(full) > TxtLimit
             THEN RStrip(SubSeq(full, 1, TxtLimit)) \o <<Ellipsis>>
             ELSE full
  IN  <<"-", " ", "[">> \o dtype \o <<"]">> \o codes_txt
      \o <<"\n", " ", " ">> \o txt

\* the budget test of the loop over picked: is the piece left out?
OverBudget(total, piece, max_chars) == total + Len(piece) > max_chars

\* the loop over picked, from its k-th element on, and the final return
RECURSIVE RenderLoop(_, _, _, _, _, _)
RenderLoop(docs, picked, k, chunks, total, max_chars) ==
  IF k > Len(picked)
  THEN (IF chunks = <<>> THEN Return("truncated", MsgTruncated)
        ELSE Return("found", Join(chunks, <<"\n">>)))
  ELSE IF picked[k] > Len(docs) THEN Raise("IndexError")
  ELSE IF RenderRaises(docs[picked[k]])
  THEN Raise(IF docs[picked[k]].codes.t = "intlist" THEN "TypeError"
             ELSE "AttributeError")
  ELSE LET piece == Piece(docs[picked[k]])
       IN  IF OverBudget(total, piece, max_chars)
           THEN (IF chunks = <<>> THEN Return("truncated", MsgTruncated)
                 ELSE Return("found", Join(chunks, <<"\n">>)))
           ELSE RenderLoop(docs, picked, k + 1, Append(chunks, piece),
                           total + Len(piece), max_chars)

\* lines 92-107: the scores, the sort and the selection for the query's
\* n-gram set qset: the local picked, or the message returned when no
\* document matches
SelectFor(ngrams, qset, top_k) ==
  IF qset = {} THEN [out |-> Return("empty_query", MsgEmptyQuery), picked |-> <<>>]
  ELSE IF Scored(ngrams, qset) = <<>>
  THEN [out |-> Return("no_match", MsgNoMatch), picked |-> <<>>]
  ELSE [out |-> Return("none", <<>>), picked |-> Picked(ngrams, qset, top_k)]

\* lines 88-107, over the list read from _KB_NGRAM_CACHE
Select(ngrams, query, top_k) == SelectFor(ngrams, char_ngrams(query, NgramN), top_k)

\* lines 109-128 after a selection: the loop over picked, if anything is picked
RenderSelected(docs, sel, max_chars) ==
  IF sel.picked = <<>> THEN sel
  ELSE [out |-> RenderLoop(docs, sel.picked, 1, <<>>, 0, max_chars),
        picked |-> sel.picked]

\* retrieve_relevant_knowledge after _load_kb_once has returned: docs is the
\* list read from _KB_CACHE, ngrams the list read from _KB_NGRAM_CACHE; picked
\* is the local of that name (empty when the call returns before setting it)
RetrieveOn(docs, ngrams, query, top_k, max_chars) ==
  IF docs = <<>> \/ ngrams = <<>>
  THEN [out |-> Return("no_kb", MsgNoKB), picked |-> <<>>]
  ELSE RenderSelected(docs, Select(ngrams, query, top_k), max_chars)

\* retrieve_relevant_knowledge run by one caller alone: what it returns or
\* raises, its local picked, the caches after it, and whether it opened the
\* file
retrieve_relevant_knowledge(cache, ncache, files, query, top_k, kb_path, max_chars) ==
  LET l == load_kb_once(cache, ncache, files, kb_path)
      r == RetrieveOn(l.cache.v, l.ncache.v, query, top_k, max_chars)
  IN  [out |-> IF l.raised THEN Raise("OSError") ELSE r.out,
       picked |-> IF l.raised THEN <<>> ELSE r.picked,
       cache |-> l.cache, ncache |-> l.ncache, opened |-> l.opened]

\* ------------------------------------------------------------- orchestrator
\* what the generation backend does on one call, reading the text of the
\* response included: it gives a text, or raises an error with a message
Returns(text) == [raises |-> FALSE, text |-> text]

Raises(msg) == [raises |-> TRUE, text |-> msg]

\* the string returned when google.generativeai could not be imported
Apology == <<"(sorry, google.generativeai is not installed)">>

\* the string returned by the except clause: a fixed prefix, then str(e)
FallbackPrefix == "(sorry, error connecting to AI): "

Fallback(msg) == <<FallbackPrefix>> \o msg

\* the two prompts, by the values substituted into their templates
MasterPrompt(knowledge, incident) ==
  [tpl |-> "master", knowledge |-> knowledge, incident |-> incident,
   consultation |-> <<>>]

ExecPrompt(incident, consultation) ==
  [tpl |-> "exec", knowledge |-> <<>>, incident |-> Strip(incident),
   consultation |-> Strip(consultation)]

\* a combination that appends the separator whatever Step 2 gave
CombinedAlways(consultation_text, extra_markdown) ==
  Strip(consultation_text) \o <<"\n", "\n">> \o extra_markdown

\* combined_markdown of the try block, both calls having returned
Combined(consultation_text, extra_markdown) ==
  IF extra_markdown # <<>>
  THEN Strip(consultation_text) \o <<"\n", "\n">> \o extra_markdown
  ELSE Strip(consultation_text)

\* a try block that keeps the Step-1 text when the Step-2 call raises
GenerateKeepsStep1(master_prompt, incident, b1, b2) ==
  IF b1.raises
  THEN [calls |-> <<master_prompt>>, out |-> Return("fallback", Fallback(b1.text))]
  ELSE [calls |-> <<master_prompt, ExecPrompt(incident, strip_code_fences(b1.text))>>,
        out |-> IF b2.raises
                THEN Return("fallback",
                            Strip(strip_code_fences(b1.text)) \o <<"\n", "\n">>
                            \o Fallback(b2.text))
                ELSE Return("report",
                            Combined(strip_code_fences(b1.text), Strip(b2.text)))]

\* the try block: the prompts sent, in order, and the string returned
Generate(master_prompt, incident, b1, b2) ==
  IF b1.raises
  THEN [calls |-> <<master_prompt>>, out |-> Return("fallback", Fallback(b1.text))]
  ELSE LET consultation_text == strip_code_fences(b1.text)
           exec_prompt == ExecPrompt(incident, consultation_text)
       IN  IF b2.raises
           THEN [calls |-> <<master_prompt, exec_prompt>>,
                 out |-> Return("fallback", Fallback(b2.text))]
           ELSE [calls |-> <<master_prompt, exec_prompt>>,
                 out |-> Return("report",
                                Combined(consultation_text, Strip(b2.text)))]

\* a consult that tests for the dependency only after the retrieval
ConsultChecksLate(has_genai, cache, ncache, files, incident, b1, b2) ==
  LET r == retrieve_relevant_knowledge(cache, ncache, files, incident,
                                       ConsultTopK, "", DefaultMaxChars)
  IN  IF r.out.kind = "raise"
      THEN [out |-> r.out, calls |-> <<>>, retrieved |-> TRUE,
            cache |-> r.cache, ncache |-> r.ncache, opened |-> r.opened]
      ELSE IF ~has_genai
      THEN [out |-> Return("apology", Apology), calls |-> <<>>, retrieved |-> FALSE,
            cache |-> r.cache, ncache |-> r.ncache, opened |-> r.opened]
      ELSE LET g == Generate(MasterPrompt(r.out.text, incident), incident, b1, b2)
           IN  [out |-> g.out, calls |-> g.calls, retrieved |-> TRUE,
                cache |-> r.cache, ncache |-> r.ncache, opened |-> r.opened]

\* get_consultation_response: what it returns or raises, the prompts it
\* sent, whether it ran the retrieval, and the caches after it
get_consultation_response(has_genai, cache, ncache, files, incident, b1, b2) ==
  IF ~has_genai
  THEN [out |-> Return("apology", Apology), calls |-> <<>>, retrieved |-> FALSE,
        cache |-> cache, ncache |-> ncache, opened |-> FALSE]
  ELSE LET r == retrieve_relevant_knowledge(cache, ncache, files, incident,
                                            ConsultTopK, "", DefaultMaxChars)
       IN  IF r.out.kind = "raise"
           THEN [out |-> r.out, calls |-> <<>>, retrieved |-> TRUE,
                 cache |-> r.cache, ncache |-> r.ncache, opened |-> r.opened]
           ELSE LET g == Generate(MasterPrompt(r.out.text, incident), incident, b1, b2)
                IN  [out |-> g.out, calls |-> g.calls, retrieved |-> TRUE,
                     cache |-> r.cache, ncache |-> r.ncache, opened |-> r.opened]

\* ------------------------------------------------------------------- inputs
\* knowledge-base files: two well-formed documents; and blank, malformed and
\* non-object lines with a record whose text is a number and a record whose
\* codes hold a number
KBGood ==
  << ObjLine(Doc(Str(<<"c", "d">>), Codes(<< <<"C", "1">> >>), Str(<<"a", "b">>))),
     ObjLine(Doc(Absent, NoCodes, Str(<<"a", "b", "c">>))) >>

KBOdd ==
  << OtherLine("blank"), OtherLine("bad"), OtherLine("nonobj"),
     ObjLine(Doc(Absent, NoCodes, IntVal)),
     ObjLine(Doc(Str(<<"k", "b">>), IntCodes, Str(<<"a", "b">>))) >>

\* the file at the other path, which only an explicit kb_path names
KBAlt == << ObjLine(Doc(Absent, NoCodes, Str(<<"b", "c">>))) >>

Files == {Missing, Unreadable, Present(KBGood), Present(KBOdd)}

\* incident descriptions and queries: one that matches, one that is blank
Incidents == { <<"a", "b", "c">>, <<" ">> }

\* what the backend may do: raise one of two errors, give no text, a fenced
\* block after a space, or backticks that meet once a fence between them is
\* removed
Fenced == <<" ", BT, BT, BT, "m", "d", "\n", "m", "\n", BT, BT, BT>>

Backends ==
  { Raises(<<"e", "1">>), Raises(<<"e", "2">>), Returns(<<>>), Returns(Fenced),
    Returns(<<BT, BT, " ", BT, BT, BT, BT>>) }

\* the lines a knowledge-base file of SpecRetrieve is made of
RetrieveLines ==
  { ObjLine(Doc(Str(<<"c", "d">>), Codes(<< <<"C", "1">> >>), Str(<<"a", "b">>))),
    ObjLine(Doc(Str(<<"c", "d">>), Codes(<< <<"C", "2">> >>), Str(<<"a", "b">>))),
    ObjLine(Doc(Absent, NoCodes, Str(<<"a", "b", "c">>))),
    ObjLine(Doc(Str(<<"k", "b">>), Codes(<<>>), Str(<<"b", "c">>))),
    ObjLine(Doc(Absent, NoCodes, Str(<<" ", "A", " ", "b", " ">>))),
    ObjLine(Doc(Absent, NoCodes, IntVal)) }

RetrieveQueries == { <<"a", "b", "c">>, <<" ", "B", "c">>, <<" ">> }

\* every sequence over S of length at most n
SeqsUpTo(S, n) == UNION {[1..k -> S] : k \in 0..n}

\* the characters of the texts given to strip_code_fences in SpecStrip
StripChars == {BT, " ", "m", "d"}

\* -------------------------------------------------------------------- state
VARIABLES
  genai,            \* the module global genai is not None
  fs,               \* the file at each path
  KB_CACHE,         \* the module global _KB_CACHE
  KB_NGRAM_CACHE,   \* the module global _KB_NGRAM_CACHE
  opens,            \* open() calls made on a knowledge-base file so far
  firstDone,        \* a call of retrieve_relevant_knowledge has finished
  last,             \* the latest call: its arguments and what it gave
  inp,              \* the arguments drawn for the call of a one-call process
  thr,              \* each concurrent caller: its place in the code, its locals
  wrote             \* which caller's load stored each cache, and how many stored

vars == <<genai, fs, KB_CACHE, KB_NGRAM_CACHE, opens, firstDone, last, inp, thr, wrote>>

\* the concurrent callers of SpecConc
Threads == {"t1", "t2"}

\* a caller that is not running
Idle ==
  [pc |-> "idle", query |-> <<>>, kb_path |-> "", docs |-> <<>>, ngrams |-> <<>>,
   picked |-> <<>>, docsBy |-> "nobody", ngramsBy |-> "nobody",
   out |-> Return("none", <<>>)]

NoWrites == [docs |-> "nobody", ngrams |-> "nobody", loads |-> 0]

NoCall ==
  [op |-> "none", arg |-> <<>>, b1 |-> Returns(<<>>), b2 |-> Returns(<<>>),
   top_k |-> 0, kb_path |-> "", max_chars |-> 0,
   out |-> Return("none", <<>>), picked |-> <<>>, calls |-> <<>>,
   retrieved |-> FALSE]

NoInput == [text |-> <<>>, query |-> <<>>, top_k |-> 0, max_chars |-> 0]

\* the process before its first call, with the given dependency and files,
\* and with the given concurrent callers
Start(g, files, input, callers) ==
  /\ thr = callers
  /\ wrote = NoWrites
  /\ genai = g
  /\ fs = files
  /\ KB_CACHE = None
  /\ KB_NGRAM_CACHE = None
  /\ opens = 0
  /\ firstDone = FALSE
  /\ last = NoCall
  /\ inp = input

\* ------------------------------------------------------------------ actions
\* a call of get_consultation_response
Consult(incident, b1, b2) ==
  \E r \in {get_consultation_response(genai, KB_CACHE, KB_NGRAM_CACHE, fs,
                                       incident, b1, b2)} :
      /\ opens < MaxOpens
      /\ KB_CACHE' = r.cache
      /\ KB_NGRAM_CACHE' = r.ncache
      /\ opens' = IF r.opened THEN opens + 1 ELSE opens
      /\ firstDone' = (firstDone \/ r.retrieved)
      /\ last' = [NoCall EXCEPT !.op = "consult", !.arg = incident, !.b1 = b1,
                                !.b2 = b2, !.out = r.out, !.calls = r.calls,
                                !.retrieved = r.retrieved]
      /\ UNCHANGED <<genai, fs, inp, thr, wrote>>

\* a call of retrieve_relevant_knowledge
Retrieve(query, top_k, kb_path, max_chars) ==
  \E r \in {retrieve_relevant_knowledge(KB_CACHE, KB_NGRAM_CACHE, fs, query,
                                         top_k, kb_path, max_chars)} :
      /\ opens < MaxOpens
      /\ KB_CACHE' = r.cache
      /\ KB_NGRAM_CACHE' = r.ncache
      /\ opens' = IF r.opened THEN opens + 1 ELSE opens
      /\ firstDone' = TRUE
      /\ last' = [NoCall EXCEPT !.op = "retrieve", !.arg = query,
                                !.top_k = top_k, !.kb_path = kb_path,
                                !.max_chars = max_chars, !.out = r.out,
                                !.picked = r.picked, !.retrieved = TRUE]
      /\ UNCHANGED <<genai, fs, inp, thr, wrote>>

\* the environment replaces, removes or locks the file at a path
FileChange(path, file) ==
  /\ fs[path] # file
  /\ fs' = [fs EXCEPT ![path] = file]
  /\ UNCHANGED <<genai, KB_CACHE, KB_NGRAM_CACHE, opens, firstDone, last, inp, thr, wrote>>

\* --------------------------------------------- the process, one caller (Spec)
NoCallers == [t \in Threads |-> Idle]

FilesAt(file) == [p \in Paths |-> IF p = DefaultPath THEN file ELSE Present(KBAlt)]

Init == \E g \in BOOLEAN, file \in Files : Start(g, FilesAt(file), NoInput, NoCallers)

ConsultAny == \E i \in Incidents, b1 \in Backends, b2 \in Backends : Consult(i, b1, b2)

RetrieveAny ==
  \E q \in Incidents, kb_path \in {"", AltPath} :
    Retrieve(q, ConsultTopK, kb_path, DefaultMaxChars)

FileChangeAny == \E file \in Files : FileChange(DefaultPath, file)

Next == ConsultAny \/ RetrieveAny \/ FileChangeAny

Spec == Init /\ [][Next]_vars

\* ------------------------- one call of retrieve_relevant_knowledge (SpecRetrieve)
InitRetrieve ==
  \E lines \in SeqsUpTo(RetrieveLines, MaxLines), q \in RetrieveQueries,
     k \in 0..MaxTopK, m \in MinBudget..MaxBudget :
    Start(TRUE, [p \in Paths |-> Present(lines)],
          [NoInput EXCEPT !.query = q, !.top_k = k, !.max_chars = m], NoCallers)

RetrieveInput ==
  /\ last.op = "none"
  /\ Retrieve(inp.query, inp.top_k, "", inp.max_chars)

SpecRetrieve == InitRetrieve /\ [][RetrieveInput]_vars

\* ---------------------------------- one call of _strip_code_fences (SpecStrip)
InitStrip ==
  \E t \in SeqsUpTo(StripChars, MaxLen) :
    Start(TRUE, [p \in Paths |-> Missing], [NoInput EXCEPT !.text = t], NoCallers)

StripCall ==
  /\ last.op = "none"
  /\ last' = [NoCall EXCEPT !.op = "strip", !.arg = inp.text,
                            !.out = Return("stripped", strip_code_fences(inp.text))]
  /\ UNCHANGED <<genai, fs, KB_CACHE, KB_NGRAM_CACHE, opens, firstDone, inp, thr, wrote>>

SpecStrip == InitStrip /\ [][StripCall]_vars

\* ------------------- concurrent first calls of the retrieval (SpecConc)
\* Each caller runs retrieve_relevant_knowledge(query, kb_path=kb_path) with
\* the default top_k and max_chars.  No lock guards the module globals, so
\* every read and every store of a global is a step of its own, and the
\* callers' steps interleave.

\* line 51, first operand: _KB_CACHE is not None
Check1(t) ==
  /\ thr[t].pc = "check1"
  /\ thr' = [thr EXCEPT ![t].pc = IF KB_CACHE.none THEN "read" ELSE "check2"]
  /\ UNCHANGED <<genai, fs, KB_CACHE, KB_NGRAM_CACHE, opens, firstDone, last, inp, wrote>>

\* line 51, second operand: _KB_NGRAM_CACHE is not None; return if so
Check2(t) ==
  /\ thr[t].pc = "check2"
  /\ thr' = [thr EXCEPT ![t].pc = IF KB_NGRAM_CACHE.none THEN "read" ELSE "guard1"]
  /\ UNCHANGED <<genai, fs, KB_CACHE, KB_NGRAM_CACHE, opens, firstDone, last, inp, wrote>>

\* lines 54-74: the file is opened and read into the locals docs, ngrams; an
\* error other than FileNotFoundError ends the call
ReadKb(t) ==
  /\ thr[t].pc = "read"
  /\ \E r \in {ReadFile(fs[ResolvePath(thr[t].kb_path)])} :
       thr' = [thr EXCEPT ![t].pc = IF r.raised THEN "done" ELSE "store1",
                          ![t].docs = r.docs, ![t].ngrams = r.ngrams,
                          ![t].out = IF r.raised THEN Raise("OSError") ELSE @]
  /\ opens' = opens + 1
  /\ UNCHANGED <<genai, fs, KB_CACHE, KB_NGRAM_CACHE, firstDone, last, inp, wrote>>

\* line 76, first target: _KB_CACHE = docs
Store1(t) ==
  /\ thr[t].pc = "store1"
  /\ KB_CACHE' = Some(thr[t].docs)
  /\ wrote' = [wrote EXCEPT !.docs = t, !.loads = @ + 1]
  /\ thr' = [thr EXCEPT ![t].pc = "store2"]
  /\ UNCHANGED <<genai, fs, KB_NGRAM_CACHE, opens, firstDone, last, inp>>

\* line 76, second target: _KB_NGRAM_CACHE = ngrams
Store2(t) ==
  /\ thr[t].pc = "store2"
  /\ KB_NGRAM_CACHE' = Some(thr[t].ngrams)
  /\ wrote' = [wrote EXCEPT !.ngrams = t]
  /\ thr' = [thr EXCEPT ![t].pc = "guard1"]
  /\ UNCHANGED <<genai, fs, KB_CACHE, opens, firstDone, last, inp>>

\* line 85, first operand: not _KB_CACHE
Guard1(t) ==
  /\ thr[t].pc = "guard1"
  /\ thr' = [thr EXCEPT ![t].pc = IF KB_CACHE.v = <<>> THEN "done" ELSE "guard2",
                        ![t].out = IF KB_CACHE.v = <<>>
                                   THEN Return("no_kb", MsgNoKB) ELSE @]
  /\ UNCHANGED <<genai, fs, KB_CACHE, KB_NGRAM_CACHE, opens, firstDone, last, inp, wrote>>

\* line 85, second operand: not _KB_NGRAM_CACHE
Guard2(t) ==
  /\ thr[t].pc = "guard2"
  /\ thr' = [thr EXCEPT ![t].pc = IF KB_NGRAM_CACHE.v = <<>> THEN "done" ELSE "score",
                        ![t].out = IF KB_NGRAM_CACHE.v = <<>>
                                   THEN Return("no_kb", MsgNoKB) ELSE @]
  /\ UNCHANGED <<genai, fs, KB_CACHE, KB_NGRAM_CACHE, opens, firstDone, last, inp, wrote>>

\* lines 88-107: the query's n-grams, then one read of _KB_NGRAM_CACHE for
\* the scoring loop, the sort and the selection
Score(t) ==
  /\ thr[t].pc = "score"
  /\ \E r \in {Select(KB_NGRAM_CACHE.v, thr[t].query, ConsultTopK)} :
       thr' = [thr EXCEPT ![t].pc = IF r.picked = <<>> THEN "done" ELSE "render",
                          ![t].picked = r.picked,
                          ![t].ngramsBy = wrote.ngrams,
                          ![t].out = IF r.picked = <<>> THEN r.out ELSE @]
  /\ UNCHANGED <<genai, fs, KB_CACHE, KB_NGRAM_CACHE, opens, firstDone, last, inp, wrote>>

\* lines 109-128: the loop over picked, reading _KB_CACHE, and the return.
\* The loop reads the global at every document; the reads are one step here.
Render(t) ==
  /\ thr[t].pc = "render"
  /\ thr' = [thr EXCEPT ![t].pc = "done",
                        ![t].docsBy = wrote.docs,
                        ![t].out = RenderLoop(KB_CACHE.v, thr[t].picked, 1, <<>>, 0,
                                              DefaultMaxChars)]
  /\ UNCHANGED <<genai, fs, KB_CACHE, KB_NGRAM_CACHE, opens, firstDone, last, inp, wrote>>

\* the callers, each with its own kb_path, about to make their first call
Caller(kb_path) ==
  [Idle EXCEPT !.pc = "check1", !.query = <<"a", "b", "c">>, !.kb_path = kb_path]

InitConc ==
  \E file \in Files, paths \in [Threads -> {"", AltPath}] :
    Start(TRUE, FilesAt(file), NoInput, [t \in Threads |-> Caller(paths[t])])

NextConc ==
  \/ \E t \in Threads : Check1(t)
  \/ \E t \in Threads : Check2(t)
  \/ \E t \in Threads : ReadKb(t)
  \/ \E t \in Threads : Store1(t)
  \/ \E t \in Threads : Store2(t)
  \/ \E t \in Threads : Guard1(t)
  \/ \E t \in Threads : Guard2(t)
  \/ \E t \in Threads : Score(t)
  \/ \E t \in Threads : Render(t)
  \/ FileChangeAny

SpecConc == InitConc /\ [][NextConc]_vars

\* =================================================================== claims

\* C1: get_consultation_response never raises to its caller: whatever the
\* incident description, the state of the knowledge-base file and the
\* behaviour of the backend, the call ends by returning a string.
C1_NeverRaises == last.op = "consult" => last.out.kind = "return"

\* C2: the report returned by a consult in which both generation calls
\* return holds no triple-backtick code-fence marker.
C2_Unfenced ==
  (last.op = "consult" /\ Len(last.calls) = 2 /\ ~last.b1.raises /\ ~last.b2.raises)
    => ~HasFence(last.out.text)

\* C3: if a generation call raises, the consult returns the fallback string
\* with that error's text and nothing else: when the Step-1 call raises, no
\* Step-2 call is made; when the Step-2 call raises, the result is the
\* fallback string alone, without the Step-1 output.
C3_FallbackOnly ==
  (last.op = "consult" /\ last.calls # <<>>) =>
    /\ last.b1.raises =>
         /\ last.out = Return("fallback", <<FallbackPrefix>> \o last.b1.text)
         /\ Len(last.calls) = 1
         /\ last.calls[1].tpl = "master"
    /\ (~last.b1.raises /\ last.b2.raises) =>
         /\ last.out = Return("fallback", <<FallbackPrefix>> \o last.b2.text)
         /\ Len(last.calls) = 2

\* C3 happens: Step 1 gave a non-empty text and the Step-2 call raised
C3_Witness ==
  /\ last.op = "consult"
  /\ Len(last.calls) = 2
  /\ ~last.b1.raises /\ strip_code_fences(last.b1.text) # <<>>
  /\ last.b2.raises

\* C4: when the text-generation dependency is absent, a consult returns
\* exactly the fixed apology string, makes no generation call, runs no
\* retrieval and leaves the knowledge-base cache as it was before the call.
C4_AbsentDependency ==
  [][(~genai /\ last'.op = "consult") =>
       /\ last'.out = Return("apology", Apology)
       /\ last'.calls = <<>>
       /\ ~last'.retrieved
       /\ KB_CACHE' = KB_CACHE
       /\ KB_NGRAM_CACHE' = KB_NGRAM_CACHE
       /\ opens' = opens]_vars

\* C4 happens: a consult without the dependency, the cache still unloaded
C4_Witness ==
  /\ ~genai
  /\ last.op = "consult"
  /\ KB_CACHE.none /\ KB_NGRAM_CACHE.none

\* C5: when both generation calls return, the result is the sanitized Step-1
\* text, a blank-line separator and the trimmed Step-2 text if that text is
\* not empty, and the sanitized Step-1 text alone otherwise; the Step-2
\* prompt carries the sanitized Step-1 output, and is sent second.
C5_Combine ==
  (last.op = "consult" /\ last.calls # <<>> /\ ~last.b1.raises /\ ~last.b2.raises) =>
    /\ last.out.kind = "return"
    /\ last.out.text =
         IF Strip(last.b2.text) # <<>>
         THEN strip_code_fences(last.b1.text) \o <<"\n", "\n">> \o Strip(last.b2.text)
         ELSE strip_code_fences(last.b1.text)
    /\ Len(last.calls) = 2
    /\ last.calls[1].tpl = "master"
    /\ last.calls[2].tpl = "exec"
    /\ last.calls[2].consultation = strip_code_fences(last.b1.text)

\* C5 happens: both calls returned a fenced text
C5_Witness ==
  /\ last.op = "consult"
  /\ Len(last.calls) = 2
  /\ last.b1 = Returns(Fenced)
  /\ last.b2 = Returns(Fenced)

\* C6: once the first retrieval call has finished, whatever the outcome of
\* its load, the cached (documents, ngramSets) pair never changes and the
\* file is never read again.
C6_LoadOnce ==
  [][firstDone =>
       /\ KB_CACHE' = KB_CACHE
       /\ KB_NGRAM_CACHE' = KB_NGRAM_CACHE
       /\ opens' = opens]_vars

\* C7: when several callers make their first retrieval call concurrently,
\* the cache is populated exactly once, no retrieval reads a cache in which
\* only one of the two lists is set, and none reads documents and n-gram
\* sets written by different loads.
C7_OnceAndConsistent ==
  /\ wrote.loads <= 1
  /\ \A t \in Threads :
       thr[t].pc \in {"guard1", "guard2", "score", "render"}
         => (~KB_CACHE.none /\ ~KB_NGRAM_CACHE.none)
  /\ \A t \in Threads :
       (thr[t].pc = "done" /\ thr[t].docsBy # "nobody")
         => thr[t].docsBy = thr[t].ngramsBy

\* the score of document i against the query of the latest retrieval
ScoreOf(i) ==
  [inter |-> Cardinality(char_ngrams(last.arg, NgramN) \cap KB_NGRAM_CACHE.v[i]),
   union |-> Cardinality(char_ngrams(last.arg, NgramN) \cup KB_NGRAM_CACHE.v[i]),
   i |-> i]

\* the documents whose n-gram set meets the query's
Matching ==
  {i \in 1..Len(KB_NGRAM_CACHE.v) :
     (char_ngrams(last.arg, NgramN) \cap KB_NGRAM_CACHE.v[i]) # {}}

\* document i ranks before document j
RanksBefore(i, j) ==
  \/ ScoreGT(ScoreOf(i), ScoreOf(j))
  \/ (ScoreEq(ScoreOf(i), ScoreOf(j)) /\ i < j)

\* C8: the documents picked are ranked by score descending, equal scores in
\* knowledge-base order, and they are the first max(1, topK) of that ranking.
C8_Ranking ==
  (last.op = "retrieve" /\ KB_CACHE.v # <<>> /\ Matching # {}) =>
    /\ Len(last.picked) = Min(Cardinality(Matching), Max(1, last.top_k))
    /\ \A k \in 1..Len(last.picked) : last.picked[k] \in Matching
    /\ \A k, l \in 1..Len(last.picked) :
         k < l => RanksBefore(last.picked[k], last.picked[l])
    /\ \A j \in Matching :
         (\A k \in 1..Len(last.picked) : last.picked[k] # j)
           => \A k \in 1..Len(last.picked) : RanksBefore(last.picked[k], j)

\* C8 happens: two documents picked with equal scores, a third with the same
\* score left out by top_k
C8_Witness ==
  /\ last.op = "retrieve"
  /\ Len(last.picked) = 2
  /\ ScoreEq(ScoreOf(last.picked[1]), ScoreOf(last.picked[2]))
  /\ \E j \in Matching :
       /\ j # last.picked[1] /\ j # last.picked[2]
       /\ ScoreEq(ScoreOf(j), ScoreOf(last.picked[2]))

\* C9: on a string that holds no code-fence marker, _strip_code_fences
\* returns the string unchanged, character for character.
C9_NoOp ==
  (last.op = "strip" /\ ~HasFence(last.arg)) => last.out.text = last.arg

\* C9 as amended: on a string that holds no code-fence marker,
\* _strip_code_fences returns the string without its leading and trailing
\* whitespace, and otherwise unchanged.
C9_Trimmed ==
  (last.op = "strip" /\ ~HasFence(last.arg)) => last.out.text = Strip(last.arg)

\* C9 happens: a fence-free string with backticks and inner whitespace
C9_Witness ==
  /\ last.op = "strip"
  /\ ~HasFence(last.arg)
  /\ \E i, j, k \in 1..Len(last.arg) :
       i < j /\ j < k /\ last.arg[i] = BT /\ last.arg[j] = " " /\ last.arg[k] = BT
  /\ last.out.text = last.arg

\* C10: when retrieval returns a block of bullets, the length of the block,
\* the joining newlines counted, is at most maxChars, and the bullets are
\* those of a prefix of the ranked selection.
C10_WithinBudget ==
  (last.op = "retrieve" /\ last.out.tag = "found") =>
    /\ Len(last.out.text) <= last.max_chars
    /\ \E m \in 1..Len(last.picked) :
         last.out.text =
           Join([k \in 1..m |-> Piece(KB_CACHE.v[last.picked[k]])], <<"\n">>)

\* ngrams[i] is the n-gram set of the text of docs[i]: the value of
\* obj.get("text", "") is one _char_ngrams accepts, and the set is its result
AlignedAt(docs, ngrams, i) ==
  /\ i <= Len(docs)
  /\ i <= Len(ngrams)
  /\ ~NotStr(docs[i].text)
  /\ ngrams[i] = char_ngrams(OrEmpty(docs[i].text), NgramN)

\* C11: after any load the cached documents and n-gram sets are aligned: the
\* two lists have the same length and ngramSets[i] is the n-gram set of the
\* text of documents[i] for every index i, whatever records the file holds;
\* so every bullet a retrieval renders is for the document whose n-gram set
\* was scored.
C11_Aligned ==
  (~KB_CACHE.none /\ ~KB_NGRAM_CACHE.none) =>
    /\ Len(KB_CACHE.v) = Len(KB_NGRAM_CACHE.v)
    /\ \A i \in 1..Max(Len(KB_CACHE.v), Len(KB_NGRAM_CACHE.v)) :
         AlignedAt(KB_CACHE.v, KB_NGRAM_CACHE.v, i)
    /\ (last.op = "retrieve" /\ last.out.tag = "found") =>
         \A k \in 1..Len(last.picked) :
           AlignedAt(KB_CACHE.v, KB_NGRAM_CACHE.v, last.picked[k])

====
